---- MODULE Spec2Model ----
(***************************************************************************)
(* Model of src/index.js, the Autoscale continuous-deployment tool: the    *)
(* value generators, the override table, the directive resolver            *)
(* (parseParams) and the two subcommands (deploy, create) run by main.     *)
(*                                                                         *)
(* A string is a sequence of one-character strings, so that trim, split,   *)
(* startsWith, join and the regular expressions are computed character by  *)
(* character.  Math.random() is a nondeterministic choice; an external     *)
(* command (aws, unzip, mktemp) ends with exit code 0 or not, chosen       *)
(* nondeterministically when its callback runs.                            *)
(***************************************************************************)
EXTENDS Integers, Sequences, FiniteSets, TLC

VARIABLES
    call,        \* the function call under study: [fn, arguments...]
    ret,         \* its outcome: [status], plus value or error
    charCodes,   \* genString's local array charCodes
    env,         \* process.env (AWS_DEFAULT_REGION)
    available,   \* the zone names that aws ec2 describe-availability-zones lists
    argv,        \* the command line, as commander hands it to the action
    world,       \* what is outside: the parameter file, the template in S3,
                 \* the lists of zones the zone lister can answer with
    pc,          \* where the subcommand (deploy or create) stands
    mainPc,      \* where main stands
    stdout,      \* what console.info and console.log printed, one tag per line
    stderr,      \* what console.error printed
    shell,       \* the external commands run so far
    paramVariableMap,   \* create's override table
    cfnTemplateParams,  \* templateJSON.Parameters
    params,      \* paramJSON: the parameter objects, changed in place
    entry,       \* per parameter, the state of its async callback's promise
    all,         \* the promise Promise.all returns
    settled,     \* the parameters' indexes in the order their promises settled
    savedFile    \* what saveJsonToFile wrote to paramFilePath

progVars == <<argv, world, pc, mainPc, stdout, stderr, shell, paramVariableMap,
              cfnTemplateParams, params, entry, all, settled, savedFile>>
vars == <<call, ret, charCodes, env, available, progVars>>

----------------------------------------------------------------------------
(* Strings *)

\* The printable ASCII characters, code 32 (space) to code 126 (code 96, the
\* grave accent, cannot be written in a string here and has a placeholder).
Ascii ==
    << " ", "!", "\"", "#", "$", "%", "&", "'", "(", ")", "*", "+", ",", "-", ".", "/",
       "0", "1", "2", "3", "4", "5", "6", "7", "8", "9",
       ":", ";", "<", "=", ">", "?", "@",
       "A", "B", "C", "D", "E", "F", "G", "H", "I", "J", "K", "L", "M",
       "N", "O", "P", "Q", "R", "S", "T", "U", "V", "W", "X", "Y", "Z",
       "[", "\\", "]", "^", "_", "(grave)",
       "a", "b", "c", "d", "e", "f", "g", "h", "i", "j", "k", "l", "m",
       "n", "o", "p", "q", "r", "s", "t", "u", "v", "w", "x", "y", "z",
       "{", "|", "}", "~" >>

\* String.fromCharCode(c) for one code
fromCharCode(c) == Ascii[c - 31]

\* ch.charCodeAt(0)
charCodeAt0(ch) == CHOOSE c \in 32..126 : Ascii[c - 31] = ch

Digits == {"0", "1", "2", "3", "4", "5", "6", "7", "8", "9"}

\* the characters the regular expression class \s matches
WhiteSpace == {" ", "\t", "\n", "\r"}

\* \S
NonSpace(ch) == ch \notin WhiteSpace

Min(S) == CHOOSE x \in S : \A y \in S : x <= y
Max(S) == CHOOSE x \in S : \A y \in S : x >= y

\* s.trim()
trim(s) ==
    LET keep == { i \in DOMAIN s : NonSpace(s[i]) }
    IN  IF keep = {} THEN << >> ELSE SubSeq(s, Min(keep), Max(keep))

\* s.startsWith(prefix)
startsWith(s, prefix) ==
    /\ Len(s) >= Len(prefix)
    /\ SubSeq(s, 1, Len(prefix)) = prefix

\* s.split(sep) for a one-character separator: the array of chunks
RECURSIVE split(_, _)
split(s, sep) ==
    LET at == { i \in DOMAIN s : s[i] = sep }
    IN  IF at = {} THEN << s >>
        ELSE << SubSeq(s, 1, Min(at) - 1) >> \o split(SubSeq(s, Min(at) + 1, Len(s)), sep)

\* array.join(sep)
RECURSIVE join(_, _)
join(array, sep) ==
    IF Len(array) = 0 THEN << >>
    ELSE IF Len(array) = 1 THEN array[1]
    ELSE array[1] \o << sep >> \o join(Tail(array), sep)

\* the lower-case form of an ASCII character (the i flag of a regular expression)
Lower(ch) ==
    IF \E c \in 65..90 : Ascii[c - 31] = ch THEN fromCharCode(charCodeAt0(ch) + 32) ELSE ch

----------------------------------------------------------------------------
(* JavaScript values whose type varies: a record tagged with its type *)

Str(s) == [t |-> "string", s |-> s]
Num(n) == [t |-> "number", n |-> n]
Arr(a) == [t |-> "array", a |-> a]
Undefined == [t |-> "undefined"]
JNull == [t |-> "null"]
JFalse == [t |-> "boolean", b |-> FALSE]

\* !!v
Truthy(v) ==
    CASE v.t = "string" -> v.s # << >>
      [] v.t = "number" -> v.n # 0
      [] v.t = "boolean" -> v.b
      [] v.t = "array" -> TRUE
      [] OTHER -> FALSE

\* the value of a string of decimal digits ('' is 0)
RECURSIVE DecimalValue(_)
DecimalValue(digits) ==
    IF digits = << >> THEN 0
    ELSE 10 * DecimalValue(SubSeq(digits, 1, Len(digits) - 1))
         + (charCodeAt0(digits[Len(digits)]) - 48)

\* Number(v), for the values the program passes: a number or a digit string
NumberOf(v) == IF v.t = "number" THEN v.n ELSE DecimalValue(v.s)

\* the decimal digits of a natural number
RECURSIVE DecimalString(_)
DecimalString(n) ==
    IF n < 10 THEN << fromCharCode(48 + n) >>
    ELSE DecimalString(n \div 10) \o << fromCharCode(48 + (n % 10)) >>

\* String(v), for the values the program passes: a string or a natural number
StringOf(v) == IF v.t = "string" THEN v.s ELSE DecimalString(v.n)

----------------------------------------------------------------------------
(* Value generators *)

\* genString's local ranges
ranges == << <<48, 57>>, <<65, 90>>, <<97, 122>> >>

\* genPassword's symbol list
passwordSymbols == << "!", "@", "#", "$", "%", "^", "&", "*", "+", "-" >>

\* One iteration of genString's loop: the codes it can push.
\* s = Math.floor(Math.random() * size) is any of 0..size-1;
\* Math.floor(Math.random() * n) is any of 0..n-1.
genCharCode(specialChars) ==
    LET size == Len(ranges) + (IF Len(specialChars) > 0 THEN 1 ELSE 0)
        pick(s) ==
            IF s + 1 \in DOMAIN ranges
            THEN LET range == ranges[s + 1]
                 IN  { r + range[1] : r \in 0..(range[2] - range[1] - 1) }
            ELSE { charCodeAt0(specialChars[k + 1]) : k \in 0..(Len(specialChars) - 1) }
    IN  UNION { pick(s) : s \in 0..(size - 1) }

\* genString(length, specialChars): the strings it can return
genString(length, specialChars) ==
    { [i \in 1..length |-> fromCharCode(f[i])] :
        f \in [1..length -> genCharCode(specialChars)] }

\* genPassword(length, containSymbol): the strings it can return
genPassword(length, containSymbol) ==
    genString(length, IF containSymbol THEN passwordSymbols ELSE << >>)

----------------------------------------------------------------------------
(* Values that stand for "nothing" *)

NoCall == [fn |-> "none"]
NoRet == [status |-> "none"]
Pending == [status |-> "pending"]
NoEnv == [AWS_DEFAULT_REGION |-> << >>]
NoMap == [k \in {} |-> << >>]

\* the program's variables when only one function is under study
ProgIdle ==
    /\ argv = [command |-> "none"]
    /\ world = [paramFile |-> Undefined]
    /\ pc = "none"
    /\ mainPc = "none"
    /\ stdout = << >>
    /\ stderr = << >>
    /\ shell = << >>
    /\ paramVariableMap = NoMap
    /\ cfnTemplateParams = NoMap
    /\ params = << >>
    /\ entry = << >>
    /\ all = NoRet
    /\ settled = << >>
    /\ savedFile = Undefined

----------------------------------------------------------------------------
(* genString, one loop iteration per step *)

\* longest string asked of genString
MaxLength == 2

\* the specialChars arguments tried: none, one symbol, genPassword's list
SpecialCharLists == { << >>, << "#" >>, passwordSymbols }

GenStringInit ==
    /\ call \in { [fn |-> "genString", length |-> n, specialChars |-> sc] :
                    n \in 0..MaxLength, sc \in SpecialCharLists }
    /\ ret = Pending
    /\ charCodes = << >>
    /\ env = NoEnv
    /\ available = << >>
    /\ ProgIdle

\* for (let i = 0; i < length; i++) { ... charCodes.push(...) }
GenStringLoop ==
    /\ call.fn = "genString"
    /\ ret.status = "pending"
    /\ Len(charCodes) < call.length
    /\ \E c \in genCharCode(call.specialChars) : charCodes' = Append(charCodes, c)
    /\ UNCHANGED <<call, ret, env, available, progVars>>

\* return String.fromCharCode(...charCodes)
GenStringReturn ==
    /\ call.fn = "genString"
    /\ ret.status = "pending"
    /\ Len(charCodes) = call.length
    /\ ret' = [status |-> "returned",
               value |-> [i \in 1..Len(charCodes) |-> fromCharCode(charCodes[i])]]
    /\ UNCHANGED <<call, charCodes, env, available, progVars>>

GenStringNext == GenStringLoop \/ GenStringReturn

SpecGenString == GenStringInit /\ [][GenStringNext]_vars

\* the alphabet the ranges declare: 0-9, A-Z, a-z, plus the supplied symbols
DeclaredAlphabet(specialChars) ==
    Digits
    \cup { fromCharCode(c) : c \in 65..90 }
    \cup { fromCharCode(c) : c \in 97..122 }
    \cup { specialChars[i] : i \in DOMAIN specialChars }

\* C8: genString(length, specialChars) returns exactly length characters, all
\* of the declared alphabet, and at every position every character of the
\* declared alphabet (digits, A-Z, a-z, the supplied symbols) can appear.
C8_GenStringAlphabet ==
    call.fn = "genString" =>
        /\ ret.status = "returned" =>
            /\ Len(ret.value) = call.length
            /\ \A i \in DOMAIN ret.value :
                   ret.value[i] \in DeclaredAlphabet(call.specialChars)
        /\ (ret.status = "pending" /\ Len(charCodes) < call.length) =>
            \A ch \in DeclaredAlphabet(call.specialChars) :
                ENABLED (GenStringLoop /\ charCodes' = Append(charCodes, charCodeAt0(ch)))

----------------------------------------------------------------------------
(* Override table *)

\* /Name=(\S+),Value=(\S+)/gi.exec(nvp): null, or the array [match, name, value].
\* The search takes the leftmost start; each \S+ is greedy, so at that start
\* the first group is the longest one that still lets the rest match, and the
\* second group runs to the end of the non-space run.
execNameValue(nvp) ==
    LET n == Len(nvp)
        lit(i, word) ==
            /\ i + Len(word) - 1 <= n
            /\ \A k \in 1..Len(word) : Lower(nvp[i + k - 1]) = word[k]
        ok(i, j) ==
            /\ j >= i + 5
            /\ \A k \in (i + 5)..j : NonSpace(nvp[k])
            /\ lit(j + 1, << ",", "v", "a", "l", "u", "e", "=" >>)
            /\ j + 8 <= n
            /\ NonSpace(nvp[j + 8])
        starts == { i \in 1..n : lit(i, << "n", "a", "m", "e", "=" >>) /\ \E j \in i..n : ok(i, j) }
    IN  IF starts = {} THEN JNull
        ELSE LET i == Min(starts)
                 j == Max({ x \in i..n : ok(i, x) })
                 e == Max({ x \in (j + 8)..n : \A k \in (j + 8)..x : NonSpace(nvp[k]) })
             IN  Arr(<< Str(SubSeq(nvp, i, e)),
                        Str(SubSeq(nvp, i + 5, j)),
                        Str(SubSeq(nvp, j + 8, e)) >>)

\* new Map(a), a an array of [key, value] pairs of strings: a later pair
\* with the same key replaces the earlier one
NewMapFirstWins(a) ==
    [ k \in { a[i][1].s : i \in DOMAIN a } |->
        a[Min({ i \in DOMAIN a : a[i][1].s = k })][2].s ]

NewMap(a) ==
    [ k \in { a[i][1].s : i \in DOMAIN a } |->
        a[Max({ i \in DOMAIN a : a[i][1].s = k })][2].s ]

\* map.set(key, value)
MapSet(map, key, value) ==
    [ k \in (DOMAIN map) \cup { key } |-> IF k = key THEN value ELSE map[k] ]

\* genOverriddenParamMap(inputString)
genOverriddenParamMap(inputString) ==
    LET chunks == split(inputString, " ")
        nameValue(nvp) ==
            LET m == execNameValue(nvp)
                groups == IF m.t = "null" THEN << JNull, JNull, JNull >> ELSE m.a
            IN  << groups[2], groups[3] >>
        a == SelectSeq([ i \in DOMAIN chunks |-> nameValue(chunks[i]) ],
                       LAMBDA nv : Truthy(nv[1]))
    IN  NewMap(a)

\* genOverriddenParam(key, paramVariableMap), the map being the argument table
genOverriddenParam(key, table) ==
    LET value == IF key \in DOMAIN table THEN Str(table[key]) ELSE Undefined
    IN  IF value.t # "undefined" /\ Truthy(Str(StringOf(value)))
        THEN StringOf(value) ELSE << >>

----------------------------------------------------------------------------
(* genOverriddenParamMap as a function of its input *)

\* most tokens in an override specification
MaxTokens == 3

OverrideTokens ==
    { << >>,
      << "N", "a", "m", "e", "=", "A", ",", "V", "a", "l", "u", "e", "=", "1" >>,
      << "N", "a", "m", "e", "=", "A", ",", "V", "a", "l", "u", "e", "=", "2" >>,
      << "n", "a", "m", "e", "=", "B", ",", "V", "A", "L", "U", "E", "=", "3" >>,
      << "N", "a", "m", "e", "=", "A" >> }

OverrideSeparators == { " ", "\t", "\n" }

\* the override specifications of at most n tokens
RECURSIVE OverrideInputs(_)
OverrideInputs(n) ==
    IF n <= 1 THEN OverrideTokens
    ELSE LET shorter == OverrideInputs(n - 1)
         IN  OverrideTokens
             \cup { s \o << sep >> \o tok :
                      s \in shorter, sep \in OverrideSeparators, tok \in OverrideTokens }

MapInit ==
    /\ call \in { [fn |-> "genOverriddenParamMap", inputString |-> s] :
                    s \in OverrideInputs(MaxTokens) }
    /\ ret = Pending
    /\ charCodes = << >>
    /\ env = NoEnv
    /\ available = << >>
    /\ ProgIdle

GenOverriddenParamMapCall ==
    /\ call.fn = "genOverriddenParamMap"
    /\ ret.status = "pending"
    /\ ret' = [status |-> "returned", value |-> genOverriddenParamMap(call.inputString)]
    /\ UNCHANGED <<call, charCodes, env, available, progVars>>

MapNext == GenOverriddenParamMapCall

SpecMap == MapInit /\ [][MapNext]_vars

\* the tokens of s: its maximal runs of characters outside seps, as
\* [at |-> start index, text |-> token]
TokensOf(s, seps) ==
    LET starts == { i \in DOMAIN s :
                      s[i] \notin seps /\ (i = 1 \/ s[i - 1] \in seps) }
        stop(i) == Max({ e \in i..Len(s) : \A k \in i..e : s[k] \notin seps })
    IN  { [at |-> i, text |-> SubSeq(s, i, stop(i))] : i \in starts }

\* whether the map holds, for every token matching Name=<key>,Value=<value>,
\* the key with the value of its last occurrence, and nothing else
HoldsLastOfEach(map, tokens) ==
    LET hits == { tk \in tokens : execNameValue(tk.text).t = "array" }
        key(tk) == execNameValue(tk.text).a[2].s
        val(tk) == execNameValue(tk.text).a[3].s
    IN  /\ DOMAIN map = { key(tk) : tk \in hits }
        /\ \A tk \in hits :
               (\A other \in hits : key(other) = key(tk) => other.at <= tk.at)
                   => map[key(tk)] = val(tk)

\* C5 as stated: with the tokens separated by any whitespace
C5_AnyWhitespace ==
    (call.fn = "genOverriddenParamMap" /\ ret.status = "returned") =>
        HoldsLastOfEach(ret.value, TokensOf(call.inputString, WhiteSpace))

\* C5 amended: for an input whose only whitespace is the space character,
\* the map holds exactly the last value of every key among the tokens that
\* match Name=<key>,Value=<value>; other tokens are dropped.
C5_SpaceSeparated ==
    (/\ call.fn = "genOverriddenParamMap"
     /\ ret.status = "returned"
     /\ \A i \in DOMAIN call.inputString : call.inputString[i] \notin { "\t", "\n", "\r" }) =>
        HoldsLastOfEach(ret.value, TokensOf(call.inputString, WhiteSpace))

\* a space-separated input with a repeated key and a malformed token has
\* been parsed
C5_Witness ==
    /\ call.fn = "genOverriddenParamMap"
    /\ ret.status = "returned"
    /\ \A i \in DOMAIN call.inputString : call.inputString[i] \notin { "\t", "\n", "\r" }
    /\ Cardinality(TokensOf(call.inputString, WhiteSpace)) = 3
    /\ \E tk \in TokensOf(call.inputString, WhiteSpace) : execNameValue(tk.text).t = "null"
    /\ Cardinality(DOMAIN ret.value) = 1
    /\ \E k \in DOMAIN ret.value : ret.value[k] = << "2" >>

----------------------------------------------------------------------------
(* Availability zones *)

\* the arrays that hold the elements of array in some order
Shuffles(array) ==
    LET n == Len(array)
        orders == { f \in [1..n -> 1..n] : \A i, j \in 1..n : f[i] = f[j] => i = j }
    IN  { [i \in 1..n |-> array[f[i]]] : f \in orders }

\* genAvailabilityZones(num) once fetchAWSAvailabilityZones has resolved with
\* azones: the outcomes it can have.  The comparator given to sort is random
\* and inconsistent, so the order sort leaves is implementation-defined: any
\* permutation.
genAvailabilityZonesNoCheck(num, azones, region) ==
    { [status |-> "returned", value |-> join(SubSeq(shuffled, 1, Min({num, Len(azones)})), ",")] :
        shuffled \in Shuffles(azones) }

genAvailabilityZones(num, azones, region) ==
    IF Len(azones) < num
    THEN { [status |-> "thrown",
            error |-> [name |-> "Error", region |-> region,
                       request |-> num, got |-> Len(azones)]] }
    ELSE { [status |-> "returned", value |-> join(SubSeq(shuffled, 1, num), ",")] :
             shuffled \in Shuffles(azones) }

\* what a failed external command rejects with: its stderr
Stderr == [name |-> "stderr"]

\* most zones the region lists
MaxZones == 3

\* largest number of zones asked for
MaxNum == 4

ZoneNames == { << "z", fromCharCode(96 + k) >> : k \in 1..MaxZones }

\* the lists of distinct zone names the zone lister can return
ZoneLists ==
    UNION { { z \in [1..n -> ZoneNames] : \A i, j \in 1..n : z[i] = z[j] => i = j } :
              n \in 0..MaxZones }

Regions == { << "r", "1" >> }

AZInit ==
    /\ call \in { [fn |-> "genAvailabilityZones", num |-> n] : n \in 0..MaxNum }
    /\ ret = Pending
    /\ charCodes = << >>
    /\ env \in { [AWS_DEFAULT_REGION |-> r] : r \in Regions }
    /\ available \in ZoneLists
    /\ ProgIdle

\* fetchAWSAvailabilityZones rejects: the command fails or prints no JSON
FetchZonesRejected ==
    /\ call.fn = "genAvailabilityZones"
    /\ ret.status = "pending"
    /\ ret' = [status |-> "thrown", error |-> Stderr]
    /\ UNCHANGED <<call, charCodes, env, available, progVars>>

\* fetchAWSAvailabilityZones resolves and genAvailabilityZones goes on
FetchZonesResolved ==
    /\ call.fn = "genAvailabilityZones"
    /\ ret.status = "pending"
    /\ ret' \in genAvailabilityZones(call.num, available, env.AWS_DEFAULT_REGION)
    /\ UNCHANGED <<call, charCodes, env, available, progVars>>

AZNext == FetchZonesRejected \/ FetchZonesResolved

SpecAZ == AZInit /\ [][AZNext]_vars

\* whether value is count distinct names of zones, joined by commas
IsDistinctZones(value, count, zones) ==
    LET names == IF value = << >> THEN << >> ELSE split(value, ",")
    IN  /\ Len(names) = count
        /\ \A i \in DOMAIN names : \E k \in DOMAIN zones : names[i] = zones[k]
        /\ \A i, j \in DOMAIN names : names[i] = names[j] => i = j

\* C7: when the zone lister returns the list available, genAvailabilityZones(num)
\* fails with the insufficient-capacity error, naming the requested count, the
\* actual count and the region, exactly when Len(available) < num; otherwise
\* it returns exactly num distinct names of available joined by commas.
C7_ZonesExactlyNum ==
    (/\ call.fn = "genAvailabilityZones"
     /\ ret.status # "pending"
     /\ ~(ret.status = "thrown" /\ ret.error = Stderr)) =>
        IF Len(available) < call.num
        THEN /\ ret.status = "thrown"
             /\ ret.error = [name |-> "Error", region |-> env.AWS_DEFAULT_REGION,
                             request |-> call.num, got |-> Len(available)]
        ELSE /\ ret.status = "returned"
             /\ IsDistinctZones(ret.value, call.num, available)

\* two of three listed zones were returned
C7_Witness ==
    /\ call.fn = "genAvailabilityZones"
    /\ call.num = 2
    /\ Len(available) = 3
    /\ ret.status = "returned"
    /\ Len(ret.value) = 5

----------------------------------------------------------------------------
(* Directive resolver *)

cd_default == << "$", "[", "c", "d", "_", "d", "e", "f", "a", "u", "l", "t", "]" >>
cd_overridden == << "$", "[", "c", "d", "_", "o", "v", "e", "r", "r", "i", "d", "d", "e", "n", "]" >>
cd_randchar == << "$", "[", "c", "d", "_", "r", "a", "n", "d", "c", "h", "a", "r" >>
cd_genaz == << "$", "[", "c", "d", "_", "g", "e", "n", "a", "z" >>
cd_genpass == << "$", "[", "c", "d", "_", "g", "e", "n", "p", "a", "s", "s" >>
strongModifier == << "_", "s", "t", "r", "o", "n", "g" >>

\* /^<prefix>(<modifier>)?\S?(\d*)\S*\]/g.exec(v), the pattern of the three
\* generator directives (the modifier group only in $[cd_genpass's): null, or
\* the array [match, (modifier group,) digits].  Backtracking tries, in this
\* order of preference, the modifier taken, \S? taking a character, the
\* longest \d*, the longest \S*: the match is the greatest (m, q, d, r) in
\* that order for which "]" follows.
execDirective(v, prefix, modifier) ==
    LET n == Len(v)
        p == Len(prefix)
        fits(m, q, d, r) ==
            /\ p + m + q + d + r + 1 <= n
            /\ m > 0 => SubSeq(v, p + 1, p + m) = modifier
            /\ \A k \in 1..q : NonSpace(v[p + m + k])
            /\ \A k \in 1..d : v[p + m + q + k] \in Digits
            /\ \A k \in 1..r : NonSpace(v[p + m + q + d + k])
            /\ v[p + m + q + d + r + 1] = "]"
        cands == { c \in { 0, Len(modifier) } \X { 0, 1 } \X (0..n) \X (0..n) :
                     fits(c[1], c[2], c[3], c[4]) }
        score(c) == ((IF c[1] > 0 THEN 2 ELSE 0) + c[2]) * (n + 1) * (n + 1)
                    + c[3] * (n + 1) + c[4]
    IN  IF ~startsWith(v, prefix) \/ cands = {} THEN JNull
        ELSE LET c == CHOOSE x \in cands : \A y \in cands : score(y) <= score(x)
                 from == p + c[1] + c[2]
             IN  Arr(<< Str(SubSeq(v, 1, from + c[3] + c[4] + 1)) >>
                     \o (IF modifier = << >> THEN << >>
                         ELSE << IF c[1] > 0 THEN Str(modifier) ELSE Undefined >>)
                     \o << Str(SubSeq(v, from + 1, from + c[3])) >>)

\* paramUseTemplateDefault(param)
paramUseTemplateDefault(param) ==
    /\ Truthy(param.ParameterValue)
    /\ trim(param.ParameterValue.s) = cd_default

\* paramIsOverridden(param)
paramIsOverridden(param) ==
    /\ Truthy(param.ParameterValue)
    /\ trim(param.ParameterValue.s) = cd_overridden

\* getTemplateDefault(cfnTemplateParams, paramKey), the first argument being schema
getTemplateDefault(schema, paramKey) ==
    IF paramKey \in DOMAIN schema /\ schema[paramKey].Default.t # "undefined"
    THEN StringOf(schema[paramKey].Default)
    ELSE << >>

TypeError == [name |-> "TypeError"]
Unstarted == [state |-> "unstarted"]

\* The callback parseParams maps over paramJSON, from its start to its first
\* await or its return: what becomes of the parameter's promise.
\*   fulfilled: the callback returned, ParameterValue is now value;
\*   rejected: it threw (ParameterValue is undefined, so .trim() throws);
\*   awaitZones: it awaits genAvailabilityZones(num);
\*   awaitPassword: it awaits the password genPassword returned.
resolve(param, schema, table) ==
    IF paramUseTemplateDefault(param)
    THEN { [state |-> "fulfilled",
            value |-> Str(getTemplateDefault(schema, param.ParameterKey))] }
    ELSE IF paramIsOverridden(param)
    THEN { [state |-> "fulfilled",
            value |-> Str(genOverriddenParam(param.ParameterKey, table))] }
    ELSE IF param.ParameterValue.t = "undefined"
    THEN { [state |-> "rejected", error |-> TypeError] }
    ELSE LET v == trim(param.ParameterValue.s)
         IN  IF startsWith(v, cd_randchar)
             THEN LET m == execDirective(v, cd_randchar, << >>)
                      matches == IF m.t = "null" THEN << Num(0), Num(0) >> ELSE m.a
                  IN  IF Truthy(matches[2])
                      THEN { [state |-> "fulfilled", value |-> Str(g)] :
                               g \in genString(NumberOf(matches[2]), << >>) }
                      ELSE { [state |-> "fulfilled", value |-> param.ParameterValue] }
             ELSE IF startsWith(v, cd_genaz)
             THEN LET m == execDirective(v, cd_genaz, << >>)
                      matches == IF m.t = "null" THEN << Str(<< >>), Num(0) >> ELSE m.a
                  IN  { [state |-> "awaitZones", num |-> NumberOf(matches[2])] }
             ELSE IF startsWith(v, cd_genpass)
             THEN LET m == execDirective(v, cd_genpass, strongModifier)
                      matches == IF m.t = "null"
                                 THEN << Str(<< >>), JFalse, Num(0) >> ELSE m.a
                  IN  { [state |-> "awaitPassword", password |-> g] :
                          g \in genPassword(NumberOf(matches[3]), Truthy(matches[2])) }
             ELSE { [state |-> "fulfilled", value |-> param.ParameterValue] }

\* the value Promise.all fulfils with: the callbacks' results, by index
PromiseAllValueBySettlement(objects, order) ==
    [ k \in DOMAIN objects |-> objects[order[k]] ]

PromiseAllValue(objects, order) == objects

\* the promise Promise.all returned, once the promise of parameter i settled
PromiseAll(prev, entries, objects, order, i) ==
    IF prev.status # "pending" THEN prev
    ELSE IF entries[i].state = "rejected"
    THEN [status |-> "rejected", error |-> entries[i].error]
    ELSE IF \A k \in DOMAIN entries : entries[k].state = "fulfilled"
    THEN [status |-> "fulfilled", value |-> PromiseAllValue(objects, order)]
    ELSE prev

----------------------------------------------------------------------------
(* parseParams *)

\* the lists the zone lister returns: the region's first n zones, in order
ListedZones ==
    { [i \in 1..n |-> << "z", fromCharCode(96 + i) >>] : n \in 0..MaxZones }

\* the promise of parameter i settles, or its callback stops at an await
SettleEntry(i, o) ==
    LET entries == [entry EXCEPT ![i] = o]
        objects == IF o.state = "fulfilled"
                   THEN [params EXCEPT ![i].ParameterValue = o.value]
                   ELSE params
        order == IF o.state \in { "fulfilled", "rejected" }
                 THEN Append(settled, i) ELSE settled
    IN  /\ entry' = entries
        /\ params' = objects
        /\ settled' = order
        /\ all' = PromiseAll(all, entries, objects, order, i)

\* paramJSON.map(async param => ...): the callback of the next parameter runs
\* to its first await or to its end.  The callbacks run one after the other
\* and nothing else runs until map returns.
StartEntry ==
    /\ pc = "mapping"
    /\ LET i == Min({ k \in DOMAIN entry : entry[k].state = "unstarted" })
       IN  /\ \E o \in resolve(params[i], cfnTemplateParams, paramVariableMap) :
                 /\ SettleEntry(i, o)
                 /\ shell' = IF o.state = "awaitZones"
                             THEN Append(shell, "describe-availability-zones")
                             ELSE shell
           /\ stdout' = IF paramIsOverridden(params[i]) /\ ~paramUseTemplateDefault(params[i])
                        THEN Append(stdout, "Overridden value") ELSE stdout
           /\ pc' = IF i = Len(entry) THEN "parsing" ELSE "mapping"
    /\ UNCHANGED <<call, ret, charCodes, env, available, argv, world, mainPc, stderr,
                   paramVariableMap, cfnTemplateParams, savedFile>>

\* the callback of aws ec2 describe-availability-zones runs for parameter i,
\* and genAvailabilityZones and the parameter's callback run to their end
ZonesCallback ==
    /\ pc \notin { "mapping", "crashed" }
    /\ \E i \in DOMAIN entry :
        /\ entry[i].state = "awaitZones"
        /\ \/ SettleEntry(i, [state |-> "rejected", error |-> Stderr, num |-> entry[i].num])
           \/ \E zones \in world.zones :
                \E r \in genAvailabilityZones(entry[i].num, zones, env.AWS_DEFAULT_REGION) :
                    SettleEntry(i, IF r.status = "returned"
                                   THEN [state |-> "fulfilled", value |-> Str(r.value),
                                         num |-> entry[i].num, azones |-> zones]
                                   ELSE [state |-> "rejected", error |-> r.error,
                                         num |-> entry[i].num, azones |-> zones])
    /\ UNCHANGED <<call, ret, charCodes, env, available, argv, world, pc, mainPc, stdout,
                   stderr, shell, paramVariableMap, cfnTemplateParams, savedFile>>

\* the callback of parameter i resumes after await genPassword(...)
PasswordResume ==
    /\ pc \notin { "mapping", "crashed" }
    /\ \E i \in DOMAIN entry :
        /\ entry[i].state = "awaitPassword"
        /\ SettleEntry(i, [state |-> "fulfilled", value |-> Str(entry[i].password)])
    /\ stdout' = Append(stdout, "Generated password")
    /\ UNCHANGED <<call, ret, charCodes, env, available, argv, world, pc, mainPc,
                   stderr, shell, paramVariableMap, cfnTemplateParams, savedFile>>

\* parseParams(paramJSON, ...) is entered: no callback has run yet, and
\* Promise.all of no promise at all is fulfilled at once
ParseEntered(paramJSON) ==
    [ pc |-> IF paramJSON = << >> THEN "parsing" ELSE "mapping",
      entry |-> [i \in DOMAIN paramJSON |-> Unstarted],
      all |-> IF paramJSON = << >>
              THEN [status |-> "fulfilled", value |-> << >>] ELSE Pending ]

----------------------------------------------------------------------------
(* parseParams as a function of its arguments *)

\* largest N written directly after a directive's prefix, as in $[cd_genaz2]
MaxDirect == 11

\* largest N written after a separator, as in $[cd_genaz_2]
MaxSeparated == 1

\* most parameters in a document resolved concurrently
MaxEntries == 2

ParamKeys == { << "A" >>, << "B" >> }

GeneratorPrefixes == { cd_randchar, cd_genaz, cd_genpass, cd_genpass \o strongModifier }

DirectForms ==
    { p \o DecimalString(N) \o << "]" >> : p \in GeneratorPrefixes, N \in 1..MaxDirect }

SeparatedForms ==
    { p \o << "_" >> \o DecimalString(N) \o << "]" >> :
        p \in GeneratorPrefixes, N \in 0..MaxSeparated }

NoDigitForms ==
    { p \o t : p \in GeneratorPrefixes, t \in { << "]" >>, << >>, << "x", "]" >> } }

\* the ParameterValues tried one at a time
DirectiveValues ==
    { Undefined, Str(<< >>), Str(<< "x" >>), Str(cd_default), Str(cd_overridden) }
    \cup { Str(v) : v \in DirectForms \cup SeparatedForms \cup NoDigitForms }
    \cup { Str(<< " " >> \o p \o t \o << "\n" >>) :
             p \in GeneratorPrefixes \cup { << "$", "[", "c", "d", "_", "d", "e", "f", "a", "u", "l", "t" >> },
             t \in { << "]" >>, << "8", "]" >> } }

\* the ParameterValues tried together
ConcurrentValues ==
    { Undefined, Str(<< "x" >>),
      Str(cd_genaz \o << "_", "1", "]" >>), Str(cd_genpass \o << "8", "]" >>) }

ParseDocuments ==
    { << >> }
    \cup { << [ParameterKey |-> k, ParameterValue |-> v] >> :
             k \in ParamKeys, v \in DirectiveValues }
    \cup UNION { [1..n -> { [ParameterKey |-> k, ParameterValue |-> v] :
                              k \in ParamKeys, v \in ConcurrentValues }] :
                   n \in 2..MaxEntries }

Schemas ==
    { NoMap,
      (<< "A" >> :> [Default |-> Num(8)]) @@ (<< "B" >> :> [Default |-> Undefined]) }

Tables == { << "A" >> :> << "1" >> }

ParseInit ==
    /\ call = [fn |-> "parseParams"]
    /\ ret = NoRet
    /\ charCodes = << >>
    /\ env \in { [AWS_DEFAULT_REGION |-> r] : r \in Regions }
    /\ available = << >>
    /\ argv = [command |-> "none"]
    /\ \E paramJSON \in ParseDocuments :
        /\ world = [paramFile |-> Arr(paramJSON), zones |-> ListedZones]
        /\ params = paramJSON
        /\ pc = ParseEntered(paramJSON).pc
        /\ entry = ParseEntered(paramJSON).entry
        /\ all = ParseEntered(paramJSON).all
    /\ mainPc = "none"
    /\ stdout = << >>
    /\ stderr = << >>
    /\ shell = << >>
    /\ paramVariableMap \in Tables
    /\ cfnTemplateParams \in Schemas
    /\ settled = << >>
    /\ savedFile = Undefined

ParseNext == StartEntry \/ ZonesCallback \/ PasswordResume

SpecParse == ParseInit /\ [][ParseNext]_vars

\* the parameter document as it was read
Original == world.paramFile.a

\* whether parameter i was read with the directive text as its trimmed value
ReadAs(i, text) ==
    /\ world.paramFile.t = "array"
    /\ i \in DOMAIN Original
    /\ i \in DOMAIN entry
    /\ Original[i].ParameterValue.t = "string"
    /\ trim(Original[i].ParameterValue.s) = text

\* C1: a parameter read as $[cd_genpass_strong<N>] or $[cd_genpass<N>], N >= 1,
\* resolves to a string of exactly N characters, of digits, letters and, with
\* _strong, the ten symbols.
C1_PasswordLength ==
    \A i \in DOMAIN entry : \A N \in 1..MaxDirect : \A strong \in BOOLEAN :
        (/\ ReadAs(i, cd_genpass \o (IF strong THEN strongModifier ELSE << >>)
                        \o DecimalString(N) \o << "]" >>)
         /\ entry[i].state = "fulfilled") =>
            /\ params[i].ParameterValue.t = "string"
            /\ Len(params[i].ParameterValue.s) = N
            /\ \A k \in DOMAIN params[i].ParameterValue.s :
                   params[i].ParameterValue.s[k]
                       \in DeclaredAlphabet(IF strong THEN passwordSymbols ELSE << >>)

\* C2: a parameter read as $[cd_genaz<N>], N >= 1, for which the zone lister
\* returned at least N names, resolves to exactly N distinct names of that
\* list joined by commas.
C2_ZonesCount ==
    \A i \in DOMAIN entry : \A N \in 1..MaxDirect :
        (/\ ReadAs(i, cd_genaz \o DecimalString(N) \o << "]" >>)
         /\ entry[i].state \in { "fulfilled", "rejected" }
         /\ ~(entry[i].state = "rejected" /\ entry[i].error = Stderr)
         /\ Len(entry[i].azones) >= N) =>
            /\ entry[i].state = "fulfilled"
            /\ params[i].ParameterValue.t = "string"
            /\ IsDistinctZones(params[i].ParameterValue.s, N, entry[i].azones)

\* C3: a parameter whose trimmed value starts with $[cd_randchar, $[cd_genaz
\* or $[cd_genpass and holds no digit keeps its ParameterValue, and its
\* resolution raises no error.
C3_NoDigitsUnchanged ==
    \A i \in DOMAIN entry :
        (/\ \E p \in { cd_randchar, cd_genaz, cd_genpass } :
                /\ world.paramFile.t = "array"
                /\ i \in DOMAIN Original
                /\ Original[i].ParameterValue.t = "string"
                /\ startsWith(trim(Original[i].ParameterValue.s), p)
                /\ \A k \in DOMAIN Original[i].ParameterValue.s :
                       Original[i].ParameterValue.s[k] \notin Digits
         /\ entry[i].state \in { "fulfilled", "rejected" }) =>
            /\ entry[i].state = "fulfilled"
            /\ params[i].ParameterValue = Original[i].ParameterValue

\* C10: whatever the order in which the parameters' resolutions complete, a
\* fulfilled parseParams yields as many parameters as the document holds, with
\* the document's ParameterKey at every position.
C10_OrderAndKeysKept ==
    (world.paramFile.t = "array" /\ all.status = "fulfilled") =>
        /\ Len(all.value) = Len(Original)
        /\ \A i \in DOMAIN Original :
               all.value[i].ParameterKey = Original[i].ParameterKey

\* two $[cd_genaz_1] parameters with different keys were resolved, the zone
\* lister answering for the second one first
C10_Witness ==
    /\ world.paramFile.t = "array"
    /\ all.status = "fulfilled"
    /\ Len(Original) = 2
    /\ Original[1].ParameterKey # Original[2].ParameterKey
    /\ \A i \in 1..2 : ReadAs(i, cd_genaz \o << "_", "1", "]" >>)
    /\ settled = << 2, 1 >>
    /\ \A i \in 1..2 : all.value[i].ParameterValue # Original[i].ParameterValue

----------------------------------------------------------------------------
(* The subcommands and main *)

\* initAWSCLI(command), as far as the program reads process.env again
initAWSCLI(command) == [AWS_DEFAULT_REGION |-> trim(command.awsRegion)]

S3BucketName == << "S", "3", "B", "u", "c", "k", "e", "t", "N", "a", "m", "e" >>
S3KeyPrefix == << "S", "3", "K", "e", "y", "P", "r", "e", "f", "i", "x" >>
QSS3BucketName == << "Q", "S", "S", "3", "B", "u", "c", "k", "e", "t", "N", "a", "m", "e" >>
QSS3KeyPrefix == << "Q", "S", "S", "3", "K", "e", "y", "P", "r", "e", "f", "i", "x" >>

\* create's paramVariableMap: the map parsed from --override (an empty one
\* without the option), with the four bucket and key-prefix entries then set
createParamVariableMapUserLast(override, bucket, keyPrefix) ==
    LET base == MapSet(MapSet(MapSet(MapSet(NoMap,
                    S3BucketName, bucket),
                    S3KeyPrefix, keyPrefix \o << "/" >>),
                    QSS3BucketName, bucket),
                    QSS3KeyPrefix, keyPrefix \o << "/" >>)
        user == IF Truthy(override) THEN genOverriddenParamMap(override.s) ELSE NoMap
    IN  [ k \in (DOMAIN base) \cup (DOMAIN user) |->
            IF k \in DOMAIN user THEN user[k] ELSE base[k] ]

createParamVariableMap(override, bucket, keyPrefix) ==
    LET parsed == IF Truthy(override) THEN genOverriddenParamMap(override.s) ELSE NoMap
    IN  MapSet(MapSet(MapSet(MapSet(parsed,
            S3BucketName, bucket),
            S3KeyPrefix, keyPrefix \o << "/" >>),
            QSS3BucketName, bucket),
            QSS3KeyPrefix, keyPrefix \o << "/" >>)

\* what the program's variables keep when only pc, the logs and the commands move
ParseIdle == <<paramVariableMap, cfnTemplateParams, params, entry, all, settled, savedFile>>

\* main awaits program.parseAsync, which calls deploy: initAWSCLI, then
\* unpackZip awaits makeTempDir, which runs mktemp -d
DeployStart ==
    /\ argv.command = "deploy"
    /\ pc = "start"
    /\ env' = initAWSCLI(argv)
    /\ shell' = Append(shell, "mktemp")
    /\ pc' = "mktemp"
    /\ mainPc' = "awaiting"
    /\ UNCHANGED <<call, ret, charCodes, available, argv, world, stdout, stderr, ParseIdle>>

\* the callback of mktemp -d: reject(stderr), which deploy does not catch, or
\* resolve, and unpackZip runs unzip
MktempCallback ==
    /\ pc = "mktemp"
    /\ \/ /\ pc' = "rejected"
          /\ shell' = shell
       \/ /\ pc' = "unzip"
          /\ shell' = Append(shell, "unzip")
    /\ UNCHANGED <<call, ret, charCodes, env, available, argv, world, mainPc, stdout,
                   stderr, ParseIdle>>

\* the callback of unzip: reject(stderr), or resolve, and deploy calls
\* uploadDeploymentPackageToS3, where PATH.join throws a TypeError when
\* --key-prefix was not given and which otherwise runs aws s3 sync
UnzipCallback ==
    /\ pc = "unzip"
    /\ \/ /\ pc' = "rejected"
          /\ shell' = shell
       \/ /\ argv.keyPrefix.t = "undefined"
          /\ pc' = "rejected"
          /\ shell' = shell
       \/ /\ argv.keyPrefix.t = "string"
          /\ pc' = "sync"
          /\ shell' = Append(shell, "s3 sync")
    /\ UNCHANGED <<call, ret, charCodes, env, available, argv, world, mainPc, stdout,
                   stderr, ParseIdle>>

\* the callback of aws s3 sync: reject(stderr), or resolve, and deploy prints
\* its two lines and returns true
SyncCallback ==
    /\ pc = "sync"
    /\ \/ /\ pc' = "rejected"
          /\ stdout' = stdout
       \/ /\ pc' = "fulfilled"
          /\ stdout' = stdout \o << "package is extracted to s3 bucket", "deploy complete." >>
    /\ UNCHANGED <<call, ret, charCodes, env, available, argv, world, mainPc, stderr,
                   shell, ParseIdle>>

\* main awaits program.parseAsync, which calls create: initAWSCLI, the
\* override table, then (in the try block) loadTemplateFromS3 runs
\* aws s3api get-object
CreateStart ==
    /\ argv.command = "create"
    /\ pc = "start"
    /\ env' = initAWSCLI(argv)
    /\ paramVariableMap' = createParamVariableMap(argv.override, argv.bucket, argv.keyPrefix)
    /\ stdout' = stdout \o << "Loading template from", "Loading file from S3 using" >>
    /\ shell' = Append(shell, "get-object")
    /\ pc' = "get-object"
    /\ mainPc' = "awaiting"
    /\ UNCHANGED <<call, ret, charCodes, available, argv, world, stderr,
                   cfnTemplateParams, params, entry, all, settled, savedFile>>

\* the callback of aws s3api get-object.
\*  - reject(stderr): create's catch logs it and create returns;
\*  - the object is not JSON: readFileAsJson throws inside the callback, where
\*    no promise catches it, and the process dies of the uncaught exception;
\*  - resolve(template): create goes on to read the parameter file.  Without
\*    --param-file paramJSON is null and parseParams throws a TypeError;
\*    an unreadable file makes readFileAsJson throw; both reach the catch.
\*    Otherwise parseParams is entered.
TemplateCallback ==
    /\ pc = "get-object"
    /\ \/ /\ pc' = "fulfilled"
          /\ stderr' = Append(stderr, Stderr)
          /\ stdout' = stdout
          /\ UNCHANGED <<cfnTemplateParams, params, entry, all>>
       \/ /\ pc' = "crashed"
          /\ stdout' = Append(stdout, "File object is loaded.")
          /\ UNCHANGED <<stderr, cfnTemplateParams, params, entry, all>>
       \/ /\ stdout' = stdout \o << "File object is loaded.", "Parsing template parameters:" >>
          /\ \/ /\ argv.paramFile.t = "undefined" \/ world.paramFile.t # "array"
                /\ pc' = "fulfilled"
                /\ stderr' = Append(stderr, IF argv.paramFile.t = "undefined"
                                            THEN TypeError ELSE [name |-> "SyntaxError"])
                /\ UNCHANGED <<cfnTemplateParams, params, entry, all>>
             \/ /\ argv.paramFile.t # "undefined"
                /\ world.paramFile.t = "array"
                /\ cfnTemplateParams' = world.template
                /\ params' = world.paramFile.a
                /\ pc' = ParseEntered(world.paramFile.a).pc
                /\ entry' = ParseEntered(world.paramFile.a).entry
                /\ all' = ParseEntered(world.paramFile.a).all
                /\ stderr' = stderr
    /\ UNCHANGED <<call, ret, charCodes, env, available, argv, world, mainPc, shell,
                   paramVariableMap, settled, savedFile>>

\* create resumes after await parseParams(...) as if no parameter had failed:
\* the file is written and the stack created whatever Promise.all's outcome
CreateAfterParseUncaught ==
    /\ pc = "parsing"
    /\ all.status # "pending"
    /\ savedFile' = Arr(params)
    /\ stdout' = stdout \o << "File is saved", "Creating CloudFormation stack using" >>
    /\ shell' = Append(shell, "create-stack")
    /\ pc' = "create-stack"
    /\ stderr' = stderr
    /\ UNCHANGED <<call, ret, charCodes, env, available, argv, world, mainPc,
                   paramVariableMap, cfnTemplateParams, params, entry, all, settled>>

\* create resumes after await parseParams(...).
\*  - Promise.all rejected: the catch logs the error and create returns;
\*  - fulfilled: saveJsonToFile writes the file (or writeFileSync throws, to
\*    the catch), then createCloudFormationStack runs
\*    aws cloudformation create-stack
CreateAfterParse ==
    /\ pc = "parsing"
    /\ all.status # "pending"
    /\ \/ /\ all.status = "rejected"
          /\ stderr' = Append(stderr, all.error)
          /\ pc' = "fulfilled"
          /\ UNCHANGED <<stdout, shell, savedFile>>
       \/ /\ all.status = "fulfilled"
          /\ stderr' = Append(stderr, [name |-> "Error: write"])
          /\ pc' = "fulfilled"
          /\ UNCHANGED <<stdout, shell, savedFile>>
       \/ /\ all.status = "fulfilled"
          /\ savedFile' = Arr(all.value)
          /\ stdout' = stdout \o << "File is saved", "Creating CloudFormation stack using" >>
          /\ shell' = Append(shell, "create-stack")
          /\ pc' = "create-stack"
          /\ stderr' = stderr
    /\ UNCHANGED <<call, ret, charCodes, env, available, argv, world, mainPc,
                   paramVariableMap, cfnTemplateParams, params, entry, all, settled>>

\* the callback of aws cloudformation create-stack: reject(stderr), logged by
\* the catch, or resolve; create returns either way
StackCallback ==
    /\ pc = "create-stack"
    /\ \/ /\ stderr' = Append(stderr, Stderr)
          /\ stdout' = stdout
       \/ /\ stdout' = stdout \o << "Stack creation is completed.", "Stack name" >>
          /\ stderr' = stderr
    /\ pc' = "fulfilled"
    /\ UNCHANGED <<call, ret, charCodes, env, available, argv, world, mainPc, shell,
                   ParseIdle>>

\* the action's promise is fulfilled: main resumes and prints its last line
MainEnds ==
    /\ mainPc = "awaiting"
    /\ pc = "fulfilled"
    /\ stdout' = Append(stdout, "program ends.")
    /\ mainPc' = "ended"
    /\ UNCHANGED <<call, ret, charCodes, env, available, argv, world, pc, stderr, shell,
                   ParseIdle>>

\* the action's promise is rejected: parseAsync rejects, the await in main
\* throws, and the promise main() returned is rejected with no handler
MainRejects ==
    /\ mainPc = "awaiting"
    /\ pc = "rejected"
    /\ mainPc' = "unhandledRejection"
    /\ UNCHANGED <<call, ret, charCodes, env, available, argv, world, pc, stdout, stderr,
                   shell, ParseIdle>>

\* most parameters in the parameter file of a create run
MaxFileEntries == 2

\* the parameters a parameter file is made of
ProgramParameters ==
    { [ParameterKey |-> S3BucketName, ParameterValue |-> Str(cd_overridden)],
      [ParameterKey |-> << "A" >>, ParameterValue |-> Str(cd_overridden)],
      [ParameterKey |-> << "A" >>, ParameterValue |-> Str(cd_default)],
      [ParameterKey |-> << "A" >>, ParameterValue |-> Str(cd_genaz \o << "_", "2", "]" >>)],
      [ParameterKey |-> << "A" >>, ParameterValue |-> Str(cd_genpass \o strongModifier \o << "8", "]" >>)],
      [ParameterKey |-> S3BucketName, ParameterValue |-> Undefined] }

\* what the parameter file holds: an array of parameters, or no JSON
ParameterFiles ==
    { [t |-> "unreadable"] }
    \cup UNION { { Arr(doc) : doc \in [1..n -> ProgramParameters] } : n \in 0..MaxFileEntries }

Overrides ==
    { Undefined,
      Str(<< "N", "a", "m", "e", "=", "S", "3", "B", "u", "c", "k", "e", "t", "N", "a", "m", "e", ",", "V", "a", "l", "u", "e", "=", "u" >>),
      Str(<< "N", "a", "m", "e", "=", "A", ",", "V", "a", "l", "u", "e", "=", "1", " ", "N", "a", "m", "e", "=", "A", ",", "V", "a", "l", "u", "e", "=", "2" >>) }

\* the lists the zone lister answers with during a run of the program
ProgramZones ==
    { << << "z", "a" >> >>,
      << << "z", "a" >>, << "z", "b" >> >> }

TemplateParameters ==
    (<< "A" >> :> [Default |-> Num(8)]) @@ (S3BucketName :> [Default |-> Undefined])

Init ==
    /\ call = [fn |-> "main"]
    /\ ret = NoRet
    /\ charCodes = << >>
    /\ env = NoEnv
    /\ available = << >>
    /\ \/ /\ argv \in { [command |-> "deploy", awsRegion |-> << " ", "r", "1" >>,
                         keyPrefix |-> kp] : kp \in { Undefined, Str(<< "p" >>) } }
          /\ world = [paramFile |-> Undefined, template |-> NoMap, zones |-> {}]
       \/ /\ argv \in { [command |-> "create", awsRegion |-> << " ", "r", "1" >>,
                         bucket |-> << "b" >>, keyPrefix |-> << "p" >>,
                         override |-> o, paramFile |-> Undefined] : o \in Overrides }
          /\ world = [paramFile |-> Undefined, template |-> TemplateParameters,
                     zones |-> ProgramZones]
       \/ /\ argv \in { [command |-> "create", awsRegion |-> << " ", "r", "1" >>,
                         bucket |-> << "b" >>, keyPrefix |-> << "p" >>,
                         override |-> o, paramFile |-> Str(<< "f" >>)] : o \in Overrides }
          /\ world \in { [paramFile |-> f, template |-> TemplateParameters,
                            zones |-> ProgramZones] :
                           f \in ParameterFiles }
    /\ pc = "start"
    /\ mainPc = "start"
    /\ stdout = << >>
    /\ stderr = << >>
    /\ shell = << >>
    /\ paramVariableMap = NoMap
    /\ cfnTemplateParams = NoMap
    /\ params = << >>
    /\ entry = << >>
    /\ all = NoRet
    /\ settled = << >>
    /\ savedFile = Undefined

Next ==
    \/ DeployStart
    \/ MktempCallback
    \/ UnzipCallback
    \/ SyncCallback
    \/ CreateStart
    \/ TemplateCallback
    \/ StartEntry
    \/ ZonesCallback
    \/ PasswordResume
    \/ CreateAfterParse
    \/ StackCallback
    \/ MainEnds
    \/ MainRejects

Spec == Init /\ [][Next]_vars

----------------------------------------------------------------------------
(* Properties of create, deploy and main *)

\* the bucket and key-prefix entries of create's override table
SyntheticEntries ==
    (S3BucketName :> argv.bucket)
    @@ (S3KeyPrefix :> argv.keyPrefix \o << "/" >>)
    @@ (QSS3BucketName :> argv.bucket)
    @@ (QSS3KeyPrefix :> argv.keyPrefix \o << "/" >>)

\* the entries --override names: for every key among its tokens of the form
\* Name=<key>,Value=<value>, the value of the key's last occurrence
UserEntries ==
    LET tokens == IF Truthy(argv.override)
                  THEN TokensOf(argv.override.s, WhiteSpace) ELSE {}
        matches == { [at |-> tk.at, m |-> execNameValue(tk.text)] : tk \in tokens }
        hits == { [at |-> x.at, key |-> x.m.a[2].s, value |-> x.m.a[3].s] :
                    x \in { y \in matches : y.m.t = "array" } }
        last == { h \in hits : \A other \in hits : other.key = h.key => other.at <= h.at }
    IN  { [key |-> h.key, value |-> h.value] : h \in last }

\* whether every fulfilled $[cd_overridden] parameter holds what table maps
\* its key to
OverriddenResolveFrom(table) ==
    \A i \in DOMAIN entry :
        (ReadAs(i, cd_overridden) /\ entry[i].state = "fulfilled") =>
            params[i].ParameterValue =
                Str(IF params[i].ParameterKey \in DOMAIN table
                    THEN table[params[i].ParameterKey] ELSE << >>)

\* C4 as stated: the override table is the union of the synthetic entries and
\* the user's, the user's value standing where both name a key, and a
\* $[cd_overridden] parameter resolves from it.
C4_UserValueWins ==
    (argv.command = "create" /\ pc # "start") =>
        LET user == UserEntries
            table == [ k \in (DOMAIN SyntheticEntries) \cup { u.key : u \in user } |->
                         IF \E u \in user : u.key = k
                         THEN (CHOOSE u \in user : u.key = k).value
                         ELSE SyntheticEntries[k] ]
        IN  /\ paramVariableMap = table
            /\ OverriddenResolveFrom(table)

\* C4 amended: the override table is the union of the synthetic entries and
\* the user's, the synthetic value standing where both name a key, and a
\* $[cd_overridden] parameter resolves from it.
C4_SyntheticValueWins ==
    (argv.command = "create" /\ pc # "start") =>
        LET user == UserEntries
            table == [ k \in (DOMAIN SyntheticEntries) \cup { u.key : u \in user } |->
                         IF k \in DOMAIN SyntheticEntries
                         THEN SyntheticEntries[k]
                         ELSE (CHOOSE u \in user : u.key = k).value ]
        IN  /\ paramVariableMap = table
            /\ OverriddenResolveFrom(table)

\* --override names S3BucketName, and a $[cd_overridden] parameter with that
\* key resolved to the bucket of the command line
C4_Witness ==
    /\ argv.command = "create"
    /\ \E u \in UserEntries : u.key = S3BucketName /\ u.value # argv.bucket
    /\ \E i \in DOMAIN entry :
        /\ ReadAs(i, cd_overridden)
        /\ entry[i].state = "fulfilled"
        /\ params[i].ParameterKey = S3BucketName
        /\ params[i].ParameterValue = Str(argv.bucket)

\* C6: no failure of a stage escapes main as an unhandled rejection or stops
\* the process, and a run that has come to its end has printed
\* 'program ends.' last.
C6_FailuresCaught ==
    /\ mainPc # "unhandledRejection"
    /\ pc # "crashed"
    /\ (mainPc # "start" /\ ~ENABLED Next) =>
           /\ mainPc = "ended"
           /\ stdout[Len(stdout)] = "program ends."

\* whether the external command was run
Ran(command) == \E k \in DOMAIN shell : shell[k] = command

\* whether the line was printed
Printed(line) == \E k \in DOMAIN stdout : stdout[k] = line

\* C9: in create the template is fetched before any parameter is resolved, the
\* parameter file is written only when every parameter is resolved, and the
\* stack is created only after the file is written; when the template fetch
\* or the resolution of one parameter fails, no file is written and
\* create-stack never runs.
C9_StagesInOrder ==
    argv.command = "create" =>
        /\ (entry # << >> \/ all.status # "none") =>
               /\ Printed("File object is loaded.")
               /\ shell[1] = "get-object"
        /\ savedFile.t # "undefined" =>
               /\ all.status = "fulfilled"
               /\ \A i \in DOMAIN entry : entry[i].state = "fulfilled"
               /\ savedFile = Arr(params)
               /\ Len(params) = Len(world.paramFile.a)
        /\ Ran("create-stack") =>
               /\ savedFile.t # "undefined"
               /\ Printed("File is saved")
        /\ (~Printed("File object is loaded.") \/ \E i \in DOMAIN entry : entry[i].state = "rejected") =>
               /\ savedFile.t = "undefined"
               /\ ~Ran("create-stack")

\* of two parameters one was resolved and the other failed for want of
\* zones; create has returned and main has ended
C9_Witness ==
    /\ argv.command = "create"
    /\ mainPc = "ended"
    /\ Len(entry) = 2
    /\ \E i, j \in DOMAIN entry :
        /\ entry[i].state = "rejected"
        /\ entry[i].error.name = "Error"
        /\ entry[j].state = "fulfilled"
    /\ savedFile.t = "undefined"
    /\ ~Ran("create-stack")

====
